---- MODULE Spec2Model ----
(***************************************************************************)
(* Model of src/display_list.rs: the conversion of a Snippet into a        *)
(* DisplayList (format_header, format_body and From<Snippet>).             *)
(*                                                                         *)
(* A DisplayLine is a record with a tag field.  Option<T> is a sequence of *)
(* length 0 (None) or 1 (Some).  Indices (idx, body_idx, fold_start ...)   *)
(* are the 0-based indices of the Rust code; a Vec v is a sequence whose   *)
(* element v[i] of the code is v[i + 1] here.                              *)
(***************************************************************************)
EXTENDS Integers, Sequences, FiniteSets, TLC

VARIABLES
    snippet,                      \* the Snippet given to from(), as given
    annotations,                  \* snippet.annotations, drained by format_body
    header,                       \* the Vec format_header returned
    body,                         \* format_body's body
    line_index_ranges,            \* format_body's line_index_ranges
    annotation_line_count,        \* format_body's annotation_line_count
    idx,                          \* the loop index of the placement / fold loop
    no_annotation_lines_counter,  \* the fold loop's counter
    unfolded,                     \* history: Some(the body as the placement loop left it)
    last_fold,                    \* history: Some(the last fold done): its window, the
                                  \* idx it was done at, the body before and after it
    build,                        \* "unknown", "checked" or "wrapping" usize arithmetic
    out,                          \* DisplayList.body
    pc

vars == <<snippet, annotations, header, body, line_index_ranges,
          annotation_line_count, idx, no_annotation_lines_counter,
          unfolded, last_fold, build, out, pc>>

----------------------------------------------------------------------------
(* Bounds of the inputs. *)

\* placement inputs: number of source lines
MaxLines == 3
\* folding inputs: number of source lines, number of annotations of one line
MaxFoldLines == 20
MaxPerLine == 2

\* usize is pointer wide and wraps modulo 2^32 or 2^64 in a build without
\* overflow checks.  The code only ever compares a wrapped value with lengths
\* and counters far below 2^30, so the model wraps modulo 2^30, which TLC's
\* integers can hold.
UsizeMod == 1073741824

----------------------------------------------------------------------------
(* Option<T> *)

None == <<>>
Some(x) == <<x>>
IsSome(o) == Len(o) = 1
UnwrapOr(o, d) == IF Len(o) = 1 THEN o[1] ELSE d

(* Vec::get, Vec::insert and Vec::splice(a..b, [x]) with 0-based indices *)
Get(v, i) == IF i >= 0 /\ i < Len(v) THEN Some(v[i + 1]) ELSE None
Insert(v, i, x) == SubSeq(v, 1, i) \o <<x>> \o SubSeq(v, i + 1, Len(v))
Splice(v, a, b, x) == SubSeq(v, 1, a) \o <<x>> \o SubSeq(v, b + 1, Len(v))

----------------------------------------------------------------------------
(* DisplayLine, DisplayMark, DisplayAnnotationType *)

RawLine(text) == [tag |-> "RawLine", text |-> text]
EmptySourceLine == [tag |-> "EmptySourceLine"]
FoldLine == [tag |-> "FoldLine"]
SourceLine(lineno, content) ==
    [tag |-> "SourceLine", lineno |-> lineno, inline_marks |-> <<>>,
     content |-> content]
\* key is not a field of the Rust value: it records which annotation of the
\* input (by its position in snippet.annotations) the line was inserted for.
AnnotationLine(marks, range, label, annotation_type, key) ==
    [tag |-> "AnnotationLine", inline_marks |-> marks, range |-> range,
     label |-> label, annotation_type |-> annotation_type, key |-> key]

DisplayAnnotationTypeFrom(at) ==
    CASE at = "Error" -> "Error"
      [] at = "Warning" -> "Warning"

----------------------------------------------------------------------------
(* format_header *)

FormatHeader(s) ==
    LET title_annotation ==
            IF IsSome(s.title_annotation_pos)
            THEN Get(s.annotations, s.title_annotation_pos[1]) ELSE None
        main_annotation ==
            IF IsSome(s.main_annotation_pos)
            THEN Get(s.annotations, s.main_annotation_pos[1]) ELSE None
        title ==
            IF IsSome(title_annotation)
            THEN LET annotation == title_annotation[1]
                     annotation_type ==
                         IF annotation.annotation_type = "Error"
                         THEN "error" ELSE "warning"
                     id == UnwrapOr(annotation.id, "E0000")
                     label == UnwrapOr(annotation.label, "")
                 IN  <<RawLine(annotation_type \o "[" \o id \o "]: " \o label)>>
            ELSE <<>>
        location ==
            IF IsSome(main_annotation)
            THEN LET path == UnwrapOr(s.origin, "")
                 IN  <<RawLine("  --> " \o path \o ":52:1")>>
            ELSE <<>>
    IN  title \o location

----------------------------------------------------------------------------
(* format_body, lines 46-62: one SourceLine and one offset range per line *)

RECURSIVE LineRanges(_, _)
LineRanges(lines, current_index) ==
    IF lines = <<>> THEN <<>>
    ELSE LET line_length == Len(Head(lines)) + 1
         IN  <<<<current_index, current_index + line_length>>>>
             \o LineRanges(Tail(lines), current_index + line_length + 1)

SourceLines(lines, first_line) ==
    [i \in 1..Len(lines) |-> SourceLine(first_line + i - 1, lines[i])]

----------------------------------------------------------------------------
(* format_body, lines 67-154: the closure given to drain_filter *)

\* the guards of the match arms, lines 70, 71, 88, 115 and 128
NotReached(start, line_end) == start > line_end
\* (a variant of the second guard that asks for start <= end)
ContainedOrdered(start, end, line_start, line_end) ==
    start >= line_start /\ end <= line_end /\ start <= end
Contained(start, end, line_start, line_end) ==
    start >= line_start /\ end <= line_end
StartsHere(start, end, line_start, line_end) ==
    start >= line_start /\ start <= line_end /\ end > line_end
PassesThrough(start, end, line_start, line_end) ==
    start < line_start /\ end > line_end
EndsHere(start, end, line_start, line_end) ==
    start < line_start /\ end >= line_start /\ end <= line_end

\* which arm of the match on annotation.range is taken: the first whose
\* pattern and guard hold
Classify(range, line_start, line_end) ==
    LET hasBoth == IsSome(range[1]) /\ IsSome(range[2])
        start == range[1][1]
        end == range[2][1]
    IN  IF IsSome(range[1]) /\ NotReached(start, line_end) THEN "not_reached"
        ELSE IF ~hasBoth THEN "none"
        ELSE IF Contained(start, end, line_start, line_end) THEN "contained"
        ELSE IF StartsHere(start, end, line_start, line_end) THEN "starts"
        ELSE IF PassesThrough(start, end, line_start, line_end) THEN "through"
        ELSE IF EndsHere(start, end, line_start, line_end) THEN "ends"
        ELSE "none"

\* match body[body_idx] { SourceLine { ref mut inline_marks, .. } =>
\*     inline_marks.push(mark), _ => {} }
PushMark(b, body_idx, mark) ==
    IF b[body_idx + 1].tag = "SourceLine"
    THEN [b EXCEPT ![body_idx + 1].inline_marks = Append(@, mark)]
    ELSE b

\* (a variant that forgets the lines inserted so far)
BodyIdxNoCount(i, count) == i
\* line 68: let body_idx = idx + annotation_line_count
BodyIdx(i, count) == i + count

\* (a variant that inserts at the line instead of below it)
InsertIdxAtLine(body_idx) == body_idx
\* lines 74, 103, 141: the index given to body.insert
InsertIdx(body_idx) == body_idx + 1

\* One call of the closure.  st is the state the closure works on: body,
\* annotation_line_count, the annotations kept so far, and whether a
\* subtraction underflowed or the call panicked.  checks: the build has
\* overflow checks.
PlaceAnnotation(st, annotation, i, line_start, line_end, checks) ==
    LET body_idx == BodyIdx(i, st.annotation_line_count)
        arm == Classify(annotation.range, line_start, line_end)
        start == annotation.range[1][1]
        end == annotation.range[2][1]
        label == UnwrapOr(annotation.label, "")
        keep == [st EXCEPT !.kept = Append(@, annotation)]
    IN  CASE st.panicked -> keep
          [] ~st.panicked /\ arm \in {"not_reached", "none"} -> keep
          [] ~st.panicked /\ arm # "not_reached" /\ arm # "none"
                /\ body_idx >= Len(st.body) ->
                [keep EXCEPT !.panicked = TRUE]
          [] ~st.panicked /\ arm = "contained" /\ body_idx < Len(st.body) ->
                IF end < line_start /\ checks
                THEN [keep EXCEPT !.panicked = TRUE, !.underflow = TRUE]
                ELSE [st EXCEPT
                        !.body = Insert(@, InsertIdx(body_idx),
                            AnnotationLine(<<>>,
                                <<start - line_start,
                                  (end - line_start) % UsizeMod>>,
                                label,
                                DisplayAnnotationTypeFrom(annotation.annotation_type),
                                annotation.key)),
                        !.annotation_line_count = @ + 1,
                        !.underflow = @ \/ end < line_start]
          [] ~st.panicked /\ arm = "starts" /\ body_idx < Len(st.body) ->
                IF start - line_start = 0
                THEN [keep EXCEPT
                        !.body = PushMark(@, body_idx, "AnnotationStart")]
                ELSE [keep EXCEPT
                        !.body = Insert(@, InsertIdx(body_idx),
                            AnnotationLine(<<"AnnotationThrough">>,
                                <<start - line_start, start - line_start + 1>>,
                                label, "MultilineStart", annotation.key)),
                        !.annotation_line_count = @ + 1]
          [] ~st.panicked /\ arm = "through" /\ body_idx < Len(st.body) ->
                [keep EXCEPT
                    !.body = PushMark(@, body_idx, "AnnotationThrough")]
          [] ~st.panicked /\ arm = "ends" /\ body_idx < Len(st.body) ->
                [st EXCEPT
                    !.body = Insert(PushMark(@, body_idx, "AnnotationThrough"),
                        InsertIdx(body_idx),
                        AnnotationLine(<<"AnnotationThrough">>,
                            <<end - line_start, end - line_start + 1>>,
                            label, "MultilineEnd", annotation.key)),
                    !.annotation_line_count = @ + 1]

\* snippet.annotations.drain_filter(closure) for the source line i
RECURSIVE DrainFilter(_, _, _, _, _, _)
DrainFilter(st, anns, i, line_start, line_end, checks) ==
    IF anns = <<>> THEN st
    ELSE DrainFilter(
            PlaceAnnotation(st, Head(anns), i, line_start, line_end, checks),
            Tail(anns), i, line_start, line_end, checks)

----------------------------------------------------------------------------
(* The snippets given to from() *)

\* An annotation.  In the placement and folding inputs the severity, id and
\* label follow the position in the list (the first has neither id nor label).
Annotation(annotation_type, id, label, range, key) ==
    [annotation_type |-> annotation_type, id |-> id, label |-> label,
     range |-> range, key |-> key]

AnnotationAt(key, range) ==
    IF key % 2 = 1
    THEN Annotation("Error", None, None, range, key)
    ELSE Annotation("Warning", Some("E0308"), Some("oops"), range, key)

Snippet(source, anns, title_pos, main_pos, origin) ==
    [source |-> source, line_start |-> 1, origin |-> origin,
     annotations |-> anns, title_annotation_pos |-> title_pos,
     main_annotation_pos |-> main_pos]

\* the offset one past the last line's range (0 for an empty source)
PastEnd(source) ==
    IF source = <<>> THEN 0
    ELSE LineRanges(source, 0)[Len(source)][2] + 1

\* every range over the offsets 0..maxOff (end before start included), a
\* range without an end, and no range at all
Ranges(maxOff) ==
    {<<Some(s), Some(e)>> : s \in 0..maxOff, e \in 0..maxOff}
        \cup {<<Some(0), None>>, <<None, None>>}

\* the source text: lines of one and of no character in turn
LineText(i) == IF i % 2 = 1 THEN "a" ELSE ""
Source(n) == [i \in 1..n |-> LineText(i)]

\* placement inputs: up to MaxLines lines; no annotation, one, or a pair of
\* annotations in either order, each with any range over the source's
\* offsets and one offset past them
AnnotationPairs(rs) ==
    {<<>>} \cup {<<r>> : r \in rs} \cup {<<r1, r2>> : r1 \in rs, r2 \in rs}
PlacementSnippets ==
    UNION {
        {Snippet(Source(n),
                 [k \in 1..Len(rl) |-> AnnotationAt(k, rl[k])],
                 None, None, None)
            : rl \in AnnotationPairs(Ranges(PastEnd(Source(n))))}
        : n \in 0..MaxLines}

\* folding inputs: up to MaxFoldLines lines; either every line has from 1 to
\* MaxPerLine single-line annotations, or no line, one line, or two lines
\* (listed in their order, or the same line twice) have one each
LineLists(n) ==
    {<<>>} \cup {<<l>> : l \in 1..n}
        \cup {<<l1, l2>> : l1 \in 1..n, l2 \in 1..n}
LineRange(source, l) ==
    LET r == LineRanges(source, 0)[l] IN <<Some(r[1]), Some(r[1] + 1)>>
AnnotatedLines(n, ll) ==
    Snippet(Source(n),
            [k \in 1..Len(ll) |-> AnnotationAt(k, LineRange(Source(n), ll[k]))],
            None, None, None)
FoldSnippets ==
    UNION {
        {AnnotatedLines(n, [k \in 1..(n * c) |-> ((k - 1) \div c) + 1])
            : c \in 1..MaxPerLine}
        \cup
        {AnnotatedLines(n, ll)
            : ll \in {l \in LineLists(n) : Len(l) < 2 \/ l[1] <= l[2]}}
        : n \in 0..MaxFoldLines}

\* header inputs: a source of one line and up to two annotations without a
\* range, with every choice of the title and main positions
HeaderAnnotations ==
    {Annotation(t, i, l, <<None, None>>, 1) :
        t \in {"Error", "Warning"}, i \in {None, Some("E0308")},
        l \in {None, Some("oops")}}
HeaderSnippets ==
    {Snippet(Source(1), anns, tp, mp, origin) :
        anns \in {<<>>} \cup {<<a>> : a \in HeaderAnnotations}
                 \cup {<<a, AnnotationAt(2, <<Some(1), Some(2)>>)>> : a \in HeaderAnnotations},
        tp \in {None, Some(0), Some(2)},
        mp \in {None, Some(1)},
        origin \in {None, Some("src/main.rs")}}

----------------------------------------------------------------------------
(* impl From<Snippet> for DisplayList *)

Init ==
    /\ snippet \in PlacementSnippets \cup FoldSnippets \cup HeaderSnippets
    /\ annotations = snippet.annotations
    /\ header = <<>>
    /\ body = <<>>
    /\ line_index_ranges = <<>>
    /\ annotation_line_count = 0
    /\ idx = 0
    /\ no_annotation_lines_counter = 0
    /\ unfolded = None
    /\ last_fold = None
    /\ build = "unknown"
    /\ out = <<>>
    /\ pc = "header"

\* line 187: let header = format_header(&snippet)
Header ==
    /\ pc = "header"
    /\ header' = FormatHeader(snippet)
    /\ pc' = "lines"
    /\ UNCHANGED <<snippet, annotations, body, line_index_ranges,
                   annotation_line_count, idx, no_annotation_lines_counter,
                   unfolded, last_fold, build, out>>

\* lines 46-64: the loop over snippet.slice.source.lines()
MaterializeLines ==
    /\ pc = "lines"
    /\ body' = SourceLines(snippet.source, snippet.line_start)
    /\ line_index_ranges' = LineRanges(snippet.source, 0)
    /\ annotation_line_count' = 0
    /\ idx' = 0
    /\ pc' = "place"
    /\ UNCHANGED <<snippet, annotations, header, no_annotation_lines_counter,
                   unfolded, last_fold, build, out>>

\* lines 65-155: one iteration of `for idx in 0..body.len()`.  The range is
\* built once, from the body of source lines only.
PlaceLine ==
    /\ pc = "place"
    /\ idx < Len(line_index_ranges)
    /\ \E checks \in BOOLEAN :
        /\ build = "checked" => checks
        /\ build = "wrapping" => ~checks
        /\ LET line_start == line_index_ranges[idx + 1][1]
               line_end == line_index_ranges[idx + 1][2]
               st == DrainFilter(
                        [body |-> body,
                         annotation_line_count |-> annotation_line_count,
                         kept |-> <<>>, panicked |-> FALSE, underflow |-> FALSE],
                        annotations, idx, line_start, line_end, checks)
           IN  /\ body' = st.body
               /\ annotation_line_count' = st.annotation_line_count
               /\ annotations' = st.kept
               /\ build' = IF st.underflow
                           THEN (IF checks THEN "checked" ELSE "wrapping")
                           ELSE build
               /\ pc' = IF st.panicked THEN "panic" ELSE "place"
               /\ idx' = IF st.panicked THEN idx ELSE idx + 1
    /\ UNCHANGED <<snippet, header, line_index_ranges,
                   no_annotation_lines_counter, unfolded, last_fold, out>>

\* lines 157-159: the placement loop is over, the fold loop starts
StartFold ==
    /\ pc = "place"
    /\ idx >= Len(line_index_ranges)
    /\ no_annotation_lines_counter' = 0
    /\ idx' = 0
    /\ unfolded' = Some(body)
    /\ pc' = "fold"
    /\ UNCHANGED <<snippet, annotations, header, body, line_index_ranges,
                   annotation_line_count, last_fold, build, out>>

----------------------------------------------------------------------------
(* format_body, lines 160-178: the fold loop *)

FoldThreshold == 10
ContextAfter == 5
ContextBefore == 2

\* lines 164-166 and 171 in usize arithmetic: the values a wrapping build
\* computes, and whether any of the operations left the range of usize
FoldArith(i, counter) ==
    LET diff == (i - counter) % UsizeMod
        fold_start == (diff + ContextAfter) % UsizeMod
        fold_end == (i - ContextBefore) % UsizeMod
        fold_len == (fold_end - fold_start) % UsizeMod
        dec == (fold_len - 1) % UsizeMod
        new_idx == (i - dec) % UsizeMod
    IN  [fold_start |-> fold_start, fold_end |-> fold_end,
         fold_len |-> fold_len, new_idx |-> new_idx,
         overflow |-> \/ i < counter
                      \/ diff + ContextAfter >= UsizeMod
                      \/ i < ContextBefore
                      \/ fold_end < fold_start
                      \/ fold_len < 1
                      \/ i < dec]

\* body.splice(fold_start..fold_end, ..) panics on a range that is reversed
\* or ends past the length
SpliceInRange(b, fold_start, fold_end) ==
    fold_start <= fold_end /\ fold_end <= Len(b)

AtAnnotationLine ==
    /\ pc = "fold"
    /\ idx < Len(body)
    /\ body[idx + 1].tag = "AnnotationLine"

\* line 175: any other entry is counted
FoldCount ==
    /\ pc = "fold"
    /\ idx < Len(body)
    /\ body[idx + 1].tag # "AnnotationLine"
    /\ no_annotation_lines_counter' = no_annotation_lines_counter + 1
    /\ idx' = idx + 1
    /\ UNCHANGED <<snippet, annotations, header, body, line_index_ranges,
                   annotation_line_count, unfolded, last_fold, build, out, pc>>

\* lines 162, 163, 173: an AnnotationLine with the counter at the threshold
\* or below; the counter gets += 0
FoldPass ==
    /\ AtAnnotationLine
    /\ ~(no_annotation_lines_counter > FoldThreshold)
    /\ no_annotation_lines_counter' = no_annotation_lines_counter + 0
    /\ idx' = idx + 1
    /\ UNCHANGED <<snippet, annotations, header, body, line_index_ranges,
                   annotation_line_count, unfolded, last_fold, build, out, pc>>

\* lines 163-173: an AnnotationLine with the counter above the threshold
FoldCollapse ==
    /\ AtAnnotationLine
    /\ no_annotation_lines_counter > FoldThreshold
    /\ LET a == FoldArith(idx, no_annotation_lines_counter)
       IN  /\ a.overflow => build # "checked"
           /\ SpliceInRange(body, a.fold_start, a.fold_end)
           /\ a.new_idx + 1 < UsizeMod
           /\ body' = Splice(body, a.fold_start, a.fold_end, FoldLine)
           /\ idx' = a.new_idx + 1
           /\ build' = IF a.overflow THEN "wrapping" ELSE build
           /\ last_fold' = Some([fold_start |-> a.fold_start,
                                 fold_end |-> a.fold_end,
                                 idx |-> idx,
                                 before |-> body,
                                 after |-> body'])
    /\ no_annotation_lines_counter' = no_annotation_lines_counter + 0
    /\ UNCHANGED <<snippet, annotations, header, line_index_ranges,
                   annotation_line_count, unfolded, out, pc>>

\* the same lines, when an operation overflows in a build with overflow
\* checks, or when the range given to splice is out of range
FoldPanic ==
    /\ AtAnnotationLine
    /\ no_annotation_lines_counter > FoldThreshold
    /\ LET a == FoldArith(idx, no_annotation_lines_counter)
       IN  \/ /\ a.overflow
              /\ build # "wrapping"
              /\ build' = "checked"
           \/ /\ a.overflow => build # "checked"
              /\ ~SpliceInRange(body, a.fold_start, a.fold_end)
              /\ build' = IF a.overflow THEN "wrapping" ELSE build
    /\ pc' = "panic"
    /\ UNCHANGED <<snippet, annotations, header, body, line_index_ranges,
                   annotation_line_count, idx, no_annotation_lines_counter,
                   unfolded, last_fold, out>>

\* (a variant without the push)
PaddedFront(b) == Insert(b, 0, EmptySourceLine)
\* lines 180-181: body.insert(0, EmptySourceLine); body.push(EmptySourceLine)
Padded(b) == Append(Insert(b, 0, EmptySourceLine), EmptySourceLine)

\* lines 160, 180-182: the loop is over; pad and return
Pad ==
    /\ pc = "fold"
    /\ ~(idx < Len(body))
    /\ body' = Padded(body)
    /\ pc' = "assemble"
    /\ UNCHANGED <<snippet, annotations, header, line_index_ranges,
                   annotation_line_count, idx, no_annotation_lines_counter,
                   unfolded, last_fold, build, out>>

\* lines 190-192: DisplayList { body: [&header[..], &body[..]].concat() }
Assemble ==
    /\ pc = "assemble"
    /\ out' = header \o body
    /\ pc' = "done"
    /\ UNCHANGED <<snippet, annotations, header, body, line_index_ranges,
                   annotation_line_count, idx, no_annotation_lines_counter,
                   unfolded, last_fold, build>>

Next ==
    \/ Header
    \/ MaterializeLines
    \/ PlaceLine
    \/ StartFold
    \/ FoldCount
    \/ FoldPass
    \/ FoldCollapse
    \/ FoldPanic
    \/ Pad
    \/ Assemble

Spec == Init /\ [][Next]_vars

----------------------------------------------------------------------------
(* What the claims speak of *)

\* the offsets of line i (1-based) as the claims define them: the first line
\* starts at 0, a line ends at its start + its characters + 1, and the next
\* line starts one past that end
RECURSIVE OffsetStart(_)
OffsetStart(i) ==
    IF i = 1 THEN 0
    ELSE OffsetStart(i - 1) + Len(snippet.source[i - 1]) + 1 + 1
OffsetEnd(i) == OffsetStart(i) + Len(snippet.source[i]) + 1

NLines == Len(snippet.source)
Keys == 1..Len(snippet.annotations)
Start(k) == snippet.annotations[k].range[1][1]
End(k) == snippet.annotations[k].range[2][1]
HasRange(k) ==
    /\ IsSome(snippet.annotations[k].range[1])
    /\ IsSome(snippet.annotations[k].range[2])
Within(x, i) == OffsetStart(i) <= x /\ x <= OffsetEnd(i)

Placed == IsSome(unfolded)
Unfolded == unfolded[1]

IsAnnotationLine(l) == l.tag = "AnnotationLine"
IsSourceLine(l) == l.tag = "SourceLine"
\* the positions in b of the AnnotationLines inserted for annotation k
LinesOf(b, k) == {p \in DOMAIN b : IsAnnotationLine(b[p]) /\ b[p].key = k}
\* the position in b of the SourceLine of line i; 0 for i = 0, past the end
\* for i > NLines
SourcePos(b, i) ==
    IF i > NLines THEN Len(b) + 1
    ELSE IF i = 0 THEN 0
    ELSE CHOOSE p \in DOMAIN b :
            IsSourceLine(b[p]) /\ b[p].lineno = snippet.line_start + i - 1
Between(b, p, i) == SourcePos(b, i) < p /\ p < SourcePos(b, i + 1)
\* the number of marks m on the SourceLine of line i
Marks(b, i, m) ==
    LET l == b[SourcePos(b, i)]
    IN  Cardinality({n \in DOMAIN l.inline_marks : l.inline_marks[n] = m})

----------------------------------------------------------------------------
\* C1: an annotation whose start and end lie within the offsets of one line
\* gets exactly one AnnotationLine in the un-folded body, between that line's
\* SourceLine and the next, with the columns (start - ls, end - ls), the
\* annotation's label ("" if it has none) and its severity; AnnotationLines
\* of one source line stand in the order of the annotation list.
C1_SingleLinePlacement ==
    Placed =>
        /\ \A k \in Keys : \A i \in 1..NLines :
            (HasRange(k) /\ Within(Start(k), i) /\ Start(k) <= End(k)
                /\ Within(End(k), i)) =>
                /\ Cardinality(LinesOf(Unfolded, k)) = 1
                /\ \A p \in LinesOf(Unfolded, k) :
                    /\ Between(Unfolded, p, i)
                    /\ Unfolded[p].range =
                        <<Start(k) - OffsetStart(i), End(k) - OffsetStart(i)>>
                    /\ Unfolded[p].label =
                        UnwrapOr(snippet.annotations[k].label, "")
                    /\ Unfolded[p].annotation_type =
                        snippet.annotations[k].annotation_type
        /\ \A p \in 1..(Len(Unfolded) - 1) :
            (IsAnnotationLine(Unfolded[p]) /\ IsAnnotationLine(Unfolded[p + 1]))
                => Unfolded[p].key < Unfolded[p + 1].key

\* both annotations of a pair lie within the second line
C1_Witness ==
    /\ Placed
    /\ NLines >= 3
    /\ Len(snippet.annotations) = 2
    /\ \A k \in Keys :
        /\ HasRange(k) /\ Start(k) < End(k)
        /\ Within(Start(k), 2) /\ Within(End(k), 2)
        /\ \E p \in LinesOf(Unfolded, k) : Between(Unfolded, p, 2)

\* the annotations that pass through line j: they start before it and end
\* after it
Through(j) ==
    {k \in Keys : HasRange(k) /\ Start(k) < OffsetStart(j)
                    /\ End(k) > OffsetEnd(j)}
\* the annotations that start at column 0 of line i and end after the line
StartsAtColumn0(i) ==
    {k \in Keys : HasRange(k) /\ Start(k) = OffsetStart(i)
                    /\ End(k) > OffsetEnd(i)}
\* the annotations that end within line j and start before it
EndsIn(j) ==
    {k \in Keys : HasRange(k) /\ Start(k) < OffsetStart(j)
                    /\ Within(End(k), j)}

\* every annotation has a range with start <= end that ends within the source
WellFormed ==
    \A k \in Keys :
        /\ HasRange(k) /\ Start(k) <= End(k)
        /\ NLines > 0 /\ End(k) <= OffsetEnd(NLines)

\* C2: an annotation that starts at a column > 0 of line i and ends within a
\* later line k gets a MultilineStart AnnotationLine with the columns
\* (col, col + 1) between SourceLine i and SourceLine i + 1 and a MultilineEnd
\* AnnotationLine after SourceLine k, and every SourceLine strictly between
\* carries at least one AnnotationThrough mark per annotation passing
\* through it.  Stated for the sets of well-formed annotations.
C2_MultilineMidLine ==
    (Placed /\ WellFormed) =>
        \A a \in Keys : \A i \in 1..NLines : \A k \in 1..NLines :
            (HasRange(a) /\ i < k /\ Within(Start(a), i)
                /\ Start(a) > OffsetStart(i) /\ Within(End(a), k)) =>
                /\ \E p \in LinesOf(Unfolded, a) :
                    /\ Unfolded[p].annotation_type = "MultilineStart"
                    /\ Unfolded[p].range =
                        <<Start(a) - OffsetStart(i),
                          Start(a) - OffsetStart(i) + 1>>
                    /\ Between(Unfolded, p, i)
                /\ \E q \in LinesOf(Unfolded, a) :
                    /\ Unfolded[q].annotation_type = "MultilineEnd"
                    /\ q > SourcePos(Unfolded, k)
                /\ \A j \in (i + 1)..(k - 1) :
                    Marks(Unfolded, j, "AnnotationThrough")
                        >= Cardinality(Through(j))

\* C3: an annotation that starts at the first offset of line i and ends
\* within a later line k puts an AnnotationStart mark on SourceLine i and no
\* AnnotationLine for its start, an AnnotationThrough mark on SourceLine k
\* and a MultilineEnd AnnotationLine with the columns
\* (end - ls_k, end - ls_k + 1) after SourceLine k, whatever the annotations
\* earlier in the list inserted for these lines.  Stated for the sets of
\* well-formed annotations.
C3_MultilineColumn0 ==
    (Placed /\ WellFormed) =>
        \A a \in Keys : \A i \in 1..NLines : \A k \in 1..NLines :
            (HasRange(a) /\ i < k /\ Start(a) = OffsetStart(i)
                /\ Within(End(a), k)) =>
                /\ Marks(Unfolded, i, "AnnotationStart")
                        >= Cardinality(StartsAtColumn0(i))
                /\ \A p \in LinesOf(Unfolded, a) :
                    Unfolded[p].annotation_type = "MultilineEnd"
                /\ Marks(Unfolded, k, "AnnotationThrough")
                        >= Cardinality(EndsIn(k))
                /\ \E q \in LinesOf(Unfolded, a) :
                    /\ Unfolded[q].annotation_type = "MultilineEnd"
                    /\ Unfolded[q].range =
                        <<End(a) - OffsetStart(k), End(a) - OffsetStart(k) + 1>>
                    /\ Between(Unfolded, q, k)

----------------------------------------------------------------------------
(* Folding *)

\* the 0-based index at which the run of entries that are no AnnotationLines
\* and end just before the 0-based index at begins
RunStart(b, at) ==
    LET prev == {p \in 1..at : IsAnnotationLine(b[p])}
    IN  IF prev = {} THEN 0
        ELSE CHOOSE p \in prev : \A q \in prev : q <= p
RunLength(b, at) == at - RunStart(b, at)
Fold == last_fold[1]
Tags(b) == [p \in DOMAIN b |-> b[p].tag]
HasFoldLine(b) == \E p \in DOMAIN b : b[p].tag = "FoldLine"

\* 20 lines, one single-line annotation in the first and one in the last
TwentyLines ==
    /\ NLines = 20
    /\ Len(snippet.annotations) = 2
    /\ WellFormed
    /\ Within(Start(1), 1) /\ Within(End(1), 1)
    /\ Within(Start(2), 20) /\ Within(End(2), 20)

\* C4: a fold at an AnnotationLine keeps the first 5 and the last 2 entries
\* of the run between the previous AnnotationLine (or the start of the body)
\* and that AnnotationLine, and puts one FoldLine for the entries between;
\* with 20 lines annotated in the first and the last, the final body is line
\* 1, its caption, lines 2 to 6, one FoldLine, lines 19 and 20, the caption.
C4_FoldWindow ==
    /\ IsSome(last_fold) =>
        LET r == RunStart(Fold.before, Fold.idx)
        IN  Fold.after =
                SubSeq(Fold.before, 1, r + ContextAfter)
                \o <<FoldLine>>
                \o SubSeq(Fold.before, Fold.idx - ContextBefore + 1,
                          Len(Fold.before))
    /\ (pc = "done" /\ TwentyLines) =>
        /\ Tags(out) =
            <<"EmptySourceLine", "SourceLine", "AnnotationLine",
              "SourceLine", "SourceLine", "SourceLine", "SourceLine",
              "SourceLine", "FoldLine", "SourceLine", "SourceLine",
              "AnnotationLine", "EmptySourceLine">>
        /\ \A p \in 4..8 : out[p].lineno = snippet.line_start + p - 3
        /\ out[10].lineno = snippet.line_start + 18
        /\ out[11].lineno = snippet.line_start + 19

\* C7: for a snippet of well-formed annotations the conversion never panics,
\* and no index the fold computes leaves the range of usize or of the body.
C7_NoFailure ==
    WellFormed =>
        /\ pc # "panic"
        /\ (AtAnnotationLine /\ no_annotation_lines_counter > FoldThreshold) =>
            LET a == FoldArith(idx, no_annotation_lines_counter)
            IN  ~a.overflow /\ SpliceInRange(body, a.fold_start, a.fold_end)

\* C8: at an AnnotationLine the counter is the number of entries since the
\* previous AnnotationLine (or the start of the body); a fold is done only
\* after more than 10 such entries; and a body whose runs before its
\* AnnotationLines all have at most 10 entries ends without a FoldLine.
C8_FoldTrigger ==
    /\ AtAnnotationLine =>
        no_annotation_lines_counter = RunLength(body, idx)
    /\ IsSome(last_fold) =>
        RunLength(Fold.before, Fold.idx) > FoldThreshold
    /\ (pc = "done"
            /\ \A p \in DOMAIN Unfolded :
                IsAnnotationLine(Unfolded[p]) =>
                    RunLength(Unfolded, p - 1) <= FoldThreshold)
        => ~HasFoldLine(out)

\* C10: the final body has the AnnotationLines of the un-folded body, in the
\* same order, and no fold's window holds an AnnotationLine.
C10_FoldKeepsAnnotationLines ==
    /\ pc = "done" =>
        SelectSeq(out, IsAnnotationLine) = SelectSeq(Unfolded, IsAnnotationLine)
    /\ IsSome(last_fold) =>
        \A p \in (Fold.fold_start + 1)..Fold.fold_end :
            ~IsAnnotationLine(Fold.before[p])

----------------------------------------------------------------------------
(* The shape of the body *)

OnLastLine ==
    {k \in Keys : /\ HasRange(k)
                  /\ NLines > 0
                  /\ \/ Within(Start(k), NLines)
                     \/ Start(k) < OffsetStart(NLines) /\ Within(End(k), NLines)}

C6_Padding ==
    /\ pc \in {"assemble", "done"} =>
        /\ body[1] = EmptySourceLine
        /\ body[Len(body)] = EmptySourceLine
        /\ Cardinality({p \in DOMAIN body : body[p] = EmptySourceLine}) = 2
    /\ pc = "done" =>
        /\ Len(out) = Len(header) + Len(body)
        /\ \A p \in DOMAIN out :
            (out[p].tag = "RawLine") <=> (p <= Len(header))
        /\ out[Len(header) + 1] = EmptySourceLine
        /\ out[Len(out)] = EmptySourceLine
        /\ Cardinality({p \in DOMAIN out : out[p] = EmptySourceLine}) = 2

\* a list with both header lines has been assembled
C6_Witness ==
    /\ pc = "done"
    /\ Len(header) = 2
    /\ Len(out) > 4

----------------------------------------------------------------------------
(* Annotations whose end is before their start *)

Reversed == {k \in Keys : HasRange(k) /\ End(k) < Start(k)}
Pending(k) == \E n \in DOMAIN annotations : annotations[n].key = k
StartLines(k) == {i \in 1..NLines : Within(Start(k), i)}

\* the body the placement loop builds from the source lines for the
\* annotations anns, in a build without overflow checks
RECURSIVE PlaceLines(_, _, _, _)
PlaceLines(b, count, anns, i) ==
    IF i >= NLines THEN b
    ELSE LET st == DrainFilter(
                    [body |-> b, annotation_line_count |-> count,
                     kept |-> <<>>, panicked |-> FALSE, underflow |-> FALSE],
                    anns, i, OffsetStart(i + 1), OffsetEnd(i + 1), FALSE)
         IN  PlaceLines(st.body, st.annotation_line_count, st.kept, i + 1)
PlacedWithout(k) ==
    LET Other(a) == a.key # k
    IN  PlaceLines(SourceLines(snippet.source, snippet.line_start), 0,
                   SelectSeq(snippet.annotations, Other), 0)

\* C9 as claimed: an annotation whose end is before its start matches no
\* case on any line: no AnnotationLine is inserted for it, it stays pending,
\* and the body is what it is without the annotation.
C9_Original ==
    Placed =>
        \A k \in Reversed :
            /\ LinesOf(Unfolded, k) = {}
            /\ Pending(k)
            /\ Unfolded = PlacedWithout(k)

\* C9, amended: an annotation whose end is before its start matches the
\* fully contained case on the line that holds its start; on the lines
\* before it is not yet reached, on the lines after it matches nothing.  It
\* leaves the pending set there and gets one AnnotationLine
\* below that line with the columns (start - ls, end - ls) and its severity;
\* end - ls wraps when the end is before the line, and a build with overflow
\* checks panics instead, which is the only panic of the placement.  Only
\* when its start is past the last line does it stay pending, with no
\* AnnotationLine and the body as it is without the annotation.
C9_ReversedRange ==
    /\ \A k \in Reversed :
        /\ \A i \in 1..NLines :
            Classify(snippet.annotations[k].range, OffsetStart(i), OffsetEnd(i))
                = IF Within(Start(k), i) THEN "contained"
                  ELSE IF Start(k) > OffsetEnd(i) THEN "not_reached"
                  ELSE "none"
        /\ Placed =>
            /\ \A i \in StartLines(k) :
                /\ ~Pending(k)
                /\ Cardinality(LinesOf(Unfolded, k)) = 1
                /\ \A p \in LinesOf(Unfolded, k) :
                    /\ Between(Unfolded, p, i)
                    /\ Unfolded[p].range =
                        <<Start(k) - OffsetStart(i),
                          (End(k) - OffsetStart(i)) % UsizeMod>>
                    /\ Unfolded[p].annotation_type =
                        snippet.annotations[k].annotation_type
                    /\ Unfolded[p].inline_marks = <<>>
                /\ End(k) < OffsetStart(i) => build = "wrapping"
            /\ StartLines(k) = {} =>
                /\ Pending(k)
                /\ LinesOf(Unfolded, k) = {}
                /\ Unfolded = PlacedWithout(k)
    /\ (pc = "panic" /\ ~Placed) =>
        /\ build = "checked"
        /\ \E k \in Reversed : \E i \in StartLines(k) : End(k) < OffsetStart(i)

\* a reversed range whose start and end lie within the second line got its
\* AnnotationLine
C9_Witness ==
    /\ Placed
    /\ NLines >= 2
    /\ build = "unknown"
    /\ \E k \in Reversed :
        /\ Within(Start(k), 2) /\ Within(End(k), 2)
        /\ LinesOf(Unfolded, k) # {}

====
